---- MODULE Spec2Model ----
(***************************************************************************)
(* Verification model of the MCP chat workspace:                           *)
(*   - the chat-api session pool (MCPClientsManager / MCPClient),          *)
(*   - the chat-api POST /api/chat handler and the message repository,     *)
(*   - the gateway-backed tool client of the Next.js app (GatewayMCPClient)*)
(*   - the Next.js POST /api/chat route in front of the gateway,           *)
(*   - the Java gateway service (McpClientService),                        *)
(*   - the keyword server selector of the gateway.                         *)
(* Each subsystem has its own specification (SpecPool, SpecChat, ...);     *)
(* the variables of the other subsystems stay at their initial values.     *)
(***************************************************************************)
EXTENDS Integers, Sequences, FiniteSets, TLC

\* ------------------------------------------------------------------ bounds
MaxObjs == 3    \* MCPClient objects constructed during one run
MaxCalls == 2   \* manager calls (addClient) in flight at the same time
MaxReqs == 2    \* chat requests handled during one run
MaxGwCalls == 2 \* calls in flight on one GatewayMCPClient
MaxServers == 2 \* descriptors in the selector's registry
MaxPromptLen == 3   \* characters of a prompt
MaxInvokes == 2 \* MCPClient.callTool calls in flight at the same time
MaxAppends == 3 \* createMessage calls made on the repository during one run
MaxTime == 2    \* milliseconds the clock advances during one run of the repository

\* ------------------------------------------------------------ input domains
Ids == {"s1", "s2"}                 \* server ids handed out by the storage
Names == {"apollo", "playwright"}   \* server names of the configurations
ToolNames == {"t1"}                 \* tools a server reports in listTools

VARIABLES
    clients,      \* MCPClientsManager.clients: id -> MCPClient object (or NoObj)
    initialized,  \* MCPClientsManager.initialized
    storage,      \* MCPConfigStorage rows: id -> name ("" when no row)
    mcp,          \* the MCPClient objects: their fields
    calls,        \* addClient / removeClient calls in flight, one per slot
    initPhase,    \* where MCPClientsManager.init() stands
    order,        \* the ids of MCPClientsManager.clients in Map insertion order
    cleanup       \* the cleanup() call of a SIGINT/SIGTERM: its disconnects

poolVars == <<clients, initialized, storage, mcp, calls, initPhase, order, cleanup>>

VARIABLES
    reqs,         \* POST /api/chat requests of chat-api, one per slot
    messages,     \* rows of the chat message table, in insertion order
    now,          \* Date.now()
    threads       \* rows of the chat thread table, by thread id

chatVars == <<reqs, messages, now, threads>>

VARIABLES
    gw,           \* the GatewayMCPClient object: its fields and its debounce timer
    gwCalls       \* connect() / callTool() calls in flight on it, one per slot

gwVars == <<gw, gwCalls>>

VARIABLES
    gthreads,     \* threads held by the gateway: thread id -> user_id ("" when absent)
    gchats,       \* POST /mcp/chat calls the route has sent to the gateway
    routeResp     \* the answer of the Next.js POST /api/chat route, per request

routeVars == <<gthreads, gchats, routeResp>>

VARIABLES
    mcpClients,   \* McpClientService.mcpClients: the client keys it holds
    jserved       \* the requests McpClientService has answered

javaVars == <<mcpClients, jserved>>

VARIABLES
    registry,     \* the registered server descriptors, in registration order
    defaultIdx,   \* the configured default descriptor (its position)
    selPrompt,    \* the prompt of the last selection
    selected      \* the position the selector returned for it (0 before any)

selVars == <<registry, defaultIdx, selPrompt, selected>>

VARIABLES
    appends,      \* the createMessage calls made on chatRepository, in arrival order
    deletes       \* the outcome of the last deleteThread call, per thread id

storeVars == <<appends, deletes>>

VARIABLES
    invokes       \* MCPClient.callTool calls of chat-api, one per slot

invokeVars == <<invokes>>

\* ----------------------------------------------------- chat-api session pool
NoObj == 0
Objs == 1..MaxObjs
CallSlots == 1..MaxCalls

\* new MCPClient(name, config): no SDK client yet, not connected, no error
NewMCPClient(name) ==
    [made |-> TRUE, name |-> name, client |-> FALSE, isConnected |-> FALSE,
     error |-> FALSE, tools |-> {}]

Unmade ==
    [made |-> FALSE, name |-> "", client |-> FALSE, isConnected |-> FALSE,
     error |-> FALSE, tools |-> {}]

NoCleanup == [pc |-> "idle", owned |-> {}, pending |-> {}, attempted |-> {}, failures |-> 0]

FreeCall == [pc |-> "free", via |-> "", id |-> "", name |-> "", old |-> NoObj, new |-> NoObj]

\* MCPClient.isReady()
IsReady(o) == o.isConnected /\ ~o.error

FreeSlots(cs) == {c \in CallSlots : cs[c].pc = "free"}
MadeObjs(m) == {o \in Objs : m[o].made}
\* objects already constructed plus those a call in "closing" will construct
Reserved(st) == Cardinality(MadeObjs(st.mcp))
                + Cardinality({c \in CallSlots : st.calls[c].pc = "closing"})
NextObj(m) == CHOOSE o \in Objs : ~m[o].made /\ \A p \in Objs : p < o => m[p].made

\* addClient lines 155-156: construct the client and start connect()
ConnectStart(st, c, id, name, via) ==
    LET o == NextObj(st.mcp) IN
    [st EXCEPT !.mcp[o] = NewMCPClient(name),
               !.calls[c] = [pc |-> "connecting", via |-> via, id |-> id,
                             name |-> name, old |-> NoObj, new |-> o]]

\* addClient lines 149-156 up to its first await: an existing client is
\* disconnected first (await client.disconnect()), otherwise connect() starts
AddClientStart(st, c, id, name, via) ==
    IF st.clients[id] # NoObj
    THEN [st EXCEPT !.calls[c] = [pc |-> "closing", via |-> via, id |-> id,
                                  name |-> name, old |-> st.clients[id], new |-> NoObj]]
    ELSE ConnectStart(st, c, id, name, via)

St == [clients |-> clients, mcp |-> mcp, calls |-> calls]

\* the key order of the clients Map: set() on a present key keeps its place,
\* set() on an absent key appends it, delete() and clear() drop keys
MapOrder(ord, cl) ==
    LET kept == SelectSeq(ord, LAMBDA i : cl[i] # NoObj)
        RECURSIVE AppendAll(_, _)
        AppendAll(sq, ids) ==
            IF ids = {} THEN sq
            ELSE LET i == CHOOSE x \in ids : TRUE IN AppendAll(Append(sq, i), ids \ {i})
    IN  AppendAll(kept, {i \in DOMAIN cl : cl[i] # NoObj}
                           \ {kept[k] : k \in 1..Len(kept)})

\* MCPClient.disconnect() (lines 127-133) once client.close() has returned
\* (ok) or thrown: without an SDK client nothing happens, and the flag is
\* cleared only after a close() that returned
MCPDisconnect(o, ok) ==
    IF o.client /\ ok THEN [o EXCEPT !.isConnected = FALSE] ELSE o
DisconnectThrows(o, ok) == o.client /\ ~ok

\* init() lines 105-117: Promise.all over the addClient calls of init
InitSettle(cs, phase, ok) ==
    IF phase # "waiting" THEN phase
    ELSE IF ~ok THEN "failed"
    ELSE IF \E c \in CallSlots : cs[c].via = "init" /\ cs[c].pc # "free" THEN "waiting"
    ELSE "done"

\* the end of one addClient call: its promise resolves (ok) or rejects
Settle(st, c, ok) ==
    LET cs == [st.calls EXCEPT ![c] = FreeCall]
        ph == IF st.calls[c].via = "init" THEN InitSettle(cs, initPhase, ok) ELSE initPhase
    IN  /\ calls' = cs
        /\ mcp' = st.mcp
        /\ clients' = st.clients
        /\ order' = MapOrder(order, st.clients)
        /\ initPhase' = ph
        /\ initialized' = (initialized \/ (ph = "done" /\ initPhase = "waiting"))

\* MCPClient.disconnect() of the replaced client returns inside addClient
CloseDone(c, ok) ==
    /\ calls[c].pc = "closing"
    /\ LET cl == calls[c] IN
       IF ok
       THEN LET st1 == [St EXCEPT !.mcp[cl.old] = MCPDisconnect(@, TRUE)]
                st2 == ConnectStart(st1, c, cl.id, cl.name, cl.via)
            IN  /\ calls' = st2.calls /\ mcp' = st2.mcp
                /\ UNCHANGED <<clients, initPhase, initialized, order>>
       ELSE Settle(St, c, FALSE)
    /\ UNCHANGED <<storage, cleanup>>

\* MCPClient.connect() returns inside addClient (lines 156-164)
ConnectOutcomes == {"unsupported", "connectFail", "ok", "okNoTools"}
Connected(outcome) == outcome \in {"ok", "okNoTools"}
AfterConnect(o, outcome) ==
    CASE outcome = "unsupported" -> [o EXCEPT !.error = TRUE]
      [] outcome = "connectFail" -> [o EXCEPT !.client = TRUE, !.error = TRUE]
      [] outcome = "ok"          -> [o EXCEPT !.client = TRUE, !.isConnected = TRUE,
                                              !.tools = ToolNames]
      [] outcome = "okNoTools"   -> [o EXCEPT !.client = TRUE, !.isConnected = TRUE]

ConnectDone(c, outcome) ==
    /\ calls[c].pc = "connecting"
    /\ LET cl == calls[c]
           st1 == [St EXCEPT !.mcp[cl.new] = AfterConnect(@, outcome)]
           st2 == IF Connected(outcome)
                  THEN [st1 EXCEPT !.clients[cl.id] = cl.new]
                  ELSE st1
       IN Settle(st2, c, Connected(outcome))
    /\ UNCHANGED <<storage, cleanup>>

\* init() lines 94-102: cleanup(), storage.init(), storage.loadAll() awaited
InitBegin ==
    /\ initPhase = "idle"
    /\ ~initialized
    /\ initPhase' = "loading"
    /\ clients' = [i \in Ids |-> NoObj]
    /\ order' = <<>>
    /\ UNCHANGED <<initialized, storage, mcp, calls, cleanup>>

RECURSIVE StartAll(_, _)
StartAll(st, ids) ==
    IF ids = {} THEN st
    ELSE LET id == CHOOSE i \in ids : TRUE
             c == CHOOSE s \in FreeSlots(st.calls) : TRUE
         IN StartAll(AddClientStart(st, c, id, storage[id], "init"), ids \ {id})

\* init() lines 102-113: loadAll() returned, addClient for every config
InitLoaded ==
    /\ initPhase = "loading"
    /\ LET configs == {i \in Ids : storage[i] # ""} IN
       /\ Cardinality(FreeSlots(calls)) >= Cardinality(configs)
       /\ Reserved(St) + Cardinality(configs) <= MaxObjs
       /\ LET st == StartAll(St, configs) IN
          /\ calls' = st.calls /\ mcp' = st.mcp
          /\ initPhase' = IF configs = {} THEN "done" ELSE "waiting"
          /\ initialized' = (configs = {})
    /\ UNCHANGED <<clients, storage, order, cleanup>>

Listening == initPhase # "idle"

\* persistClient lines 170-178: storage.save() then addClient(entity.id, ...);
\* the id the storage hands out is a new one
FreshId(id) ==
    /\ storage[id] = ""
    /\ clients[id] = NoObj
    /\ \A c \in CallSlots : calls[c].id # id
PersistClient(c, id, name) ==
    /\ Listening
    /\ calls[c].pc = "free"
    /\ FreshId(id)
    /\ Reserved(St) < MaxObjs
    /\ storage' = [storage EXCEPT ![id] = name]
    /\ LET st == AddClientStart(St, c, id, name, "persist") IN
       calls' = st.calls /\ mcp' = st.mcp
    /\ UNCHANGED <<clients, initialized, initPhase, order, cleanup>>

\* refreshClient lines 199-215: the entry and its stored config exist
RefreshClient(c, id) ==
    /\ Listening
    /\ calls[c].pc = "free"
    /\ clients[id] # NoObj
    /\ storage[id] # ""
    /\ Reserved(St) < MaxObjs
    /\ LET st == AddClientStart(St, c, id, storage[id], "refresh") IN
       calls' = st.calls /\ mcp' = st.mcp
    /\ UNCHANGED <<clients, initialized, storage, initPhase, order, cleanup>>

\* removeClient lines 183-186: storage.has(id) and storage.delete(id) awaited
RemoveBegin(c, id) ==
    /\ Listening
    /\ calls[c].pc = "free"
    /\ storage' = [storage EXCEPT ![id] = ""]
    /\ calls' = [calls EXCEPT ![c] = [FreeCall EXCEPT !.pc = "removeLookup",
                                                       !.via = "remove", !.id = id]]
    /\ UNCHANGED <<clients, initialized, mcp, initPhase, order, cleanup>>

\* removeClient lines 188-190: clients.get(id); without an entry the call is
\* over, otherwise disconnect() of the entry's client starts
RemoveLookup(c) ==
    /\ calls[c].pc = "removeLookup"
    /\ calls' = [calls EXCEPT ![c] =
          IF clients[calls[c].id] = NoObj THEN FreeCall
          ELSE [calls[c] EXCEPT !.pc = "removing", !.old = clients[calls[c].id]]]
    /\ UNCHANGED <<clients, initialized, storage, mcp, initPhase, order, cleanup>>

\* removeClient lines 190-193: disconnect() returned, clients.delete(id); a
\* disconnect() that throws ends the call before the delete
RemoveDone(c, ok) ==
    /\ calls[c].pc = "removing"
    /\ LET cl == calls[c] IN
       IF DisconnectThrows(mcp[cl.old], ok)
       THEN UNCHANGED <<clients, mcp, order>>
       ELSE /\ mcp' = [mcp EXCEPT ![cl.old] = MCPDisconnect(@, ok)]
            /\ clients' = [clients EXCEPT ![cl.id] = NoObj]
            /\ order' = MapOrder(order, [clients EXCEPT ![cl.id] = NoObj])
    /\ calls' = [calls EXCEPT ![c] = FreeCall]
    /\ UNCHANGED <<initialized, storage, initPhase, cleanup>>

\* cleanup() lines 244-250 on SIGINT/SIGTERM (lines 90-91): the clients are
\* copied, the Map is cleared and disconnect() is called on every copy
Owned(cl) == {cl[i] : i \in {j \in Ids : cl[j] # NoObj}}
CleanupBegin ==
    /\ cleanup.pc = "idle"
    /\ Listening
    /\ cleanup' = [pc |-> IF Owned(clients) = {} THEN "done" ELSE "running",
                   owned |-> Owned(clients), pending |-> Owned(clients),
                   attempted |-> Owned(clients), failures |-> 0]
    /\ clients' = [i \in Ids |-> NoObj]
    /\ order' = <<>>
    /\ UNCHANGED <<initialized, storage, mcp, calls, initPhase>>

\* one disconnect() of cleanup settles; Promise.allSettled resolves with the
\* last of them (lines 248-252), whether they returned or threw
CleanupSettled(o, ok) ==
    /\ cleanup.pc = "running"
    /\ o \in cleanup.pending
    /\ mcp' = [mcp EXCEPT ![o] = MCPDisconnect(@, ok)]
    /\ cleanup' = [cleanup EXCEPT
          !.pending = @ \ {o},
          !.failures = IF DisconnectThrows(mcp[o], ok) THEN @ + 1 ELSE @,
          !.pc = IF cleanup.pending = {o} THEN "done" ELSE "running"]
    /\ UNCHANGED <<clients, initialized, storage, calls, initPhase, order>>

InitPoolVars ==
    /\ clients = [i \in Ids |-> NoObj]
    /\ initialized = FALSE
    /\ storage \in [Ids -> Names \cup {""}]
    /\ mcp = [o \in Objs |-> Unmade]
    /\ calls = [c \in CallSlots |-> FreeCall]
    /\ initPhase = "idle"
    /\ order = <<>>
    /\ cleanup = NoCleanup

\* ------------------------------------------------- chat-api POST /api/chat
ReqSlots == 1..MaxReqs
ThreadIds == {"T1"}             \* threadId of the request body ("" when absent)
MockUserId == "mock-user-id"    \* req.user.id as requireAuth sets it

\* streamText is called without maxSteps (chat.ts lines 63-66): one model round
MaxSteps == 1

NoReq == [pc |-> "none", user |-> "", thread |-> "", tools |-> {},
          noSession |-> FALSE, error |-> "", result |-> "",
          rounds |-> 0, toolCalls |-> {}, truncated |-> FALSE]

ReadySessions == {clients[i] : i \in {j \in Ids : clients[j] # NoObj /\ IsReady(mcp[clients[j]])}}

\* MCPClientsManager.tools(): the tool ids (serverName:toolName) of the ready clients
Tools == UNION {{<<mcp[o].name, t>> : t \in mcp[o].tools} : o \in ReadySessions}

\* chat.ts line 46: mcpManager.isReady() ? mcpManager.tools() : {}
McpTools_NoReadyCheck == Tools
McpTools == IF initialized THEN Tools ELSE {}

\* chat.ts lines 23-66: the handler up to the start of streamText
ChatBegin(r, t) ==
    /\ Listening
    /\ reqs[r].pc = "none"
    /\ \A q \in ReqSlots : q < r => reqs[q].pc # "none"
    /\ reqs' = [reqs EXCEPT ![r] =
                  [pc |-> "model", user |-> MockUserId, thread |-> t,
                   tools |-> McpTools,
                   noSession |-> (~initialized \/ ReadySessions = {}),
                   error |-> "", result |-> "",
                   rounds |-> 0, toolCalls |-> {}, truncated |-> FALSE]]
    /\ UNCHANGED <<messages, now, threads>>

\* the thread table: a row is live, was deleted (gone) or was never created
StoreThreadIds == {"T1", "T2"}
StoreUsers == {MockUserId, "other-user-id"}
NoThread == [st |-> "none", userId |-> "", createdAt |-> 0]
ThreadExists(thr, id) == id \in StoreThreadIds /\ thr[id].st = "live"

\* ChatMessageSchema.id is the primary key of the message table
PkFree(rows, id) == \A k \in 1..Len(rows) : rows[k].id # id

\* the insert of a message row: its id is unused and its thread exists
\* (ChatMessageSchema.threadId references the thread table)
InsertAccepted(rows, thr, id, threadId) == PkFree(rows, id) /\ ThreadExists(thr, threadId)

\* chatRepository.createMessage: id = Date.now().toString() (the decimal
\* digits of the clock value, kept here as the number), one insert; the
\* annotations are the toolInvocations of the call, createdAt the insert time
CreateMessage(rows, thr, t, data) ==
    IF InsertAccepted(rows, thr, t, data.threadId)
    THEN Append(rows, [id |-> t, threadId |-> data.threadId, role |-> data.role,
                       content |-> data.content, annotations |-> data.toolInvocations,
                       createdAt |-> t])
    ELSE rows

\* chat.ts lines 73-100: onFinish saves the user message, then the assistant
\* message with result.toolCalls; an insert that throws ends the try block
OnFinish(rows, thr, t, dt, threadId, r, toolCalls) ==
    IF threadId = "" THEN rows
    ELSE IF ~InsertAccepted(rows, thr, t, threadId) THEN rows
    ELSE CreateMessage(
             CreateMessage(rows, thr, t,
                 [threadId |-> threadId, role |-> "user", content |-> r,
                  toolInvocations |-> {}]),
             thr, t + dt,
             [threadId |-> threadId, role |-> "assistant", content |-> r,
              toolInvocations |-> {[toolCall |-> tc] : tc \in toolCalls}])

\* the tool calls of the final step of a run: none, or one of the tools given
ToolCallChoices(r) == {{}} \cup {{tc} : tc \in reqs[r].tools}

\* streamText finishes its round: the model answered with text or asked for
\* tools (toolCalls); onFinish runs, the text is streamed as text/plain with
\* no usage object, res.end()
ModelFinish(r, dt, toolCalls) ==
    /\ reqs[r].pc = "model"
    /\ reqs[r].rounds < MaxSteps
    /\ messages' = OnFinish(messages, threads, now, dt, reqs[r].thread, r, toolCalls)
    /\ now' = now + dt
    /\ reqs' = [reqs EXCEPT ![r].pc = "done", ![r].result = "text",
                             ![r].rounds = @ + 1, ![r].toolCalls = toolCalls]
    /\ UNCHANGED threads

\* chat.ts lines 114-117: the model call throws
ModelFail(r) ==
    /\ reqs[r].pc = "model"
    /\ reqs' = [reqs EXCEPT ![r].pc = "error", ![r].error = "Failed to generate response"]
    /\ UNCHANGED <<messages, now, threads>>

InitChatVars ==
    /\ reqs = [r \in ReqSlots |-> NoReq]
    /\ messages = <<>>
    /\ now = 0
    /\ threads = [t \in StoreThreadIds |-> NoThread]

\* the chat handler starts on a database that holds thread T1 or no thread
InitChatStored ==
    /\ reqs = [r \in ReqSlots |-> NoReq]
    /\ messages = <<>>
    /\ now = 0
    /\ threads \in {[t \in StoreThreadIds |-> NoThread],
                     [t \in StoreThreadIds |->
                        IF t = "T1"
                        THEN [st |-> "live", userId |-> MockUserId, createdAt |-> 0]
                        ELSE NoThread]}

\* ----------------------------------------------- MCPClient.callTool (chat-api)
InvokeSlots == 1..MaxInvokes
IdleInvoke == [pc |-> "idle", obj |-> NoObj, tool |-> "", wasReady |-> FALSE,
               sent |-> FALSE, failed |-> FALSE, result |-> "", error |-> ""]

\* callTool line 110: the guard on the SDK client and the connected flag
NotConnected(o) == ~o.client \/ ~o.isConnected

\* the execute closure of a loaded tool (loadTools lines 94-100) calls
\* callTool (lines 109-125) on its client object o: a client that is not
\* connected throws at once, otherwise the request goes to the server
CallToolStart(o, tool) ==
    IF NotConnected(mcp[o])
    THEN [IdleInvoke EXCEPT !.obj = o, !.tool = tool, !.wasReady = IsReady(mcp[o]),
                            !.failed = TRUE, !.result = "thrown",
                            !.error = "MCP client not connected"]
    ELSE [IdleInvoke EXCEPT !.pc = "sending", !.obj = o, !.tool = tool,
                            !.wasReady = IsReady(mcp[o]), !.sent = TRUE]

ToolCallBegin(k, o, tool) ==
    /\ invokes[k].pc = "idle"
    /\ mcp[o].made /\ tool \in mcp[o].tools
    /\ invokes' = [invokes EXCEPT ![k] = CallToolStart(o, tool)]

\* MCPClientsManager.tools() (lines 123-143): the ready clients are visited in
\* the key order of the Map and each of their tools is stored under
\* serverName:toolName, so the last ready client that has the key owns it
RequestedTools == ToolNames \cup {"t9"}     \* t9: a tool no server reports
ToolIds == Names \X RequestedTools
HasTool_Any(o, tool) == TRUE
HasTool(o, tool) == tool \in o.tools
Writers(ord, cl, m, toolId) ==
    {k \in 1..Len(ord) : /\ IsReady(m[cl[ord[k]]])
                         /\ m[cl[ord[k]]].name = toolId[1]
                         /\ HasTool(m[cl[ord[k]]], toolId[2])}
ToolOwner(ord, cl, m, toolId) ==
    LET ks == Writers(ord, cl, m, toolId) IN
    IF ks = {} THEN ""
    ELSE ord[CHOOSE k \in ks : \A j \in ks : j <= k]
ToolsMap == [toolId \in {t \in ToolIds : ToolOwner(order, clients, mcp, t) # ""} |->
                [_mcpServerId |-> ToolOwner(order, clients, mcp, toolId),
                 _mcpServerName |-> toolId[1], _originToolName |-> toolId[2]]]

\* POST /api/mcp/tools/:toolId/call (mcp.ts lines 61-83): the tool is looked
\* up in tools(); a missing one is answered 404 'Tool not found', a found one
\* is executed on the client that owns the entry
RouteToolCall(k, toolId) ==
    /\ Listening
    /\ invokes[k].pc = "idle"
    /\ invokes' = [invokes EXCEPT ![k] =
          IF toolId \notin DOMAIN ToolsMap
          THEN [IdleInvoke EXCEPT !.tool = toolId[2], !.failed = TRUE,
                                  !.result = "notFound", !.error = "Tool not found"]
          ELSE CallToolStart(clients[ToolsMap[toolId]._mcpServerId], toolId[2])]

\* client.callTool returns (lines 114-124): the content is returned, an
\* error is logged and thrown again
ToolCallDone(k, ok) ==
    /\ invokes[k].pc = "sending"
    /\ invokes' = [invokes EXCEPT ![k] =
          IF ok
          THEN [invokes[k] EXCEPT !.pc = "idle", !.result = "content"]
          ELSE [invokes[k] EXCEPT !.pc = "idle", !.failed = TRUE, !.result = "thrown",
                                  !.error = "tool call failed"]]

InitInvokeVars == invokes = [k \in InvokeSlots |-> IdleInvoke]

\* ------------------------------------------------ chatRepository (chat-api)
\* the clock advances by one millisecond
StoreTick ==
    /\ now < MaxTime
    /\ now' = now + 1
    /\ UNCHANGED <<reqs, messages, threads, appends, deletes>>

\* createThread (lines 31-41): one insert, the id is generated by the table
\* and never handed out twice
FreshThreadId(thr) == IF thr["T1"].st = "none" THEN "T1" ELSE "T2"
StoreCreateThread(userId) ==
    /\ \E id \in StoreThreadIds : threads[id].st = "none"
    /\ threads' = [threads EXCEPT ![FreshThreadId(threads)] =
                      [st |-> "live", userId |-> userId, createdAt |-> now]]
    /\ UNCHANGED <<reqs, messages, now, appends, deletes>>

\* createMessage (lines 78-96) called with a thread id and a role; the
\* content of the n-th call is n; a rejected insert throws the database error
InsertError(rows, thr, id, threadId) ==
    IF ~ThreadExists(thr, threadId) THEN "foreign key violation"
    ELSE IF ~PkFree(rows, id) THEN "duplicate key"
    ELSE ""
StoreCreateMessage(threadId, role) ==
    /\ Len(appends) < MaxAppends
    /\ LET n == Len(appends) + 1 IN
       /\ messages' = CreateMessage(messages, threads, now,
                          [threadId |-> threadId, role |-> role, content |-> n,
                           toolInvocations |-> {}])
       /\ appends' = Append(appends,
                          [threadId |-> threadId, content |-> n,
                           existed |-> ThreadExists(threads, threadId),
                           error |-> InsertError(messages, threads, now, threadId)])
    /\ UNCHANGED <<reqs, now, threads, deletes>>

\* getMessagesByThreadId (lines 70-76): the rows of the thread ordered by
\* createdAt (rows of equal createdAt in table order)
RECURSIVE SortByCreatedAt(_)
SortByCreatedAt(rows) ==
    IF rows = <<>> THEN <<>>
    ELSE LET k == CHOOSE i \in 1..Len(rows) :
                     /\ \A j \in 1..Len(rows) : rows[i].createdAt <= rows[j].createdAt
                     /\ \A j \in 1..(i - 1) : rows[j].createdAt > rows[i].createdAt
         IN <<rows[k]>> \o SortByCreatedAt(SubSeq(rows, 1, k - 1) \o SubSeq(rows, k + 1, Len(rows)))
GetMessagesByThreadId(rows, threadId) ==
    SortByCreatedAt(SelectSeq(rows, LAMBDA row : row.threadId = threadId))

\* deleteThread (lines 109-111): one delete on the thread table; the table
\* refuses it while message rows reference the thread
Referenced(rows, id) == \E k \in 1..Len(rows) : rows[k].threadId = id
StoreDeleteThread(id) ==
    /\ threads[id].st = "live"
    /\ IF Referenced(messages, id)
       THEN /\ deletes' = [deletes EXCEPT ![id] = "foreign key violation"]
            /\ UNCHANGED threads
       ELSE /\ deletes' = [deletes EXCEPT ![id] = "ok"]
            /\ threads' = [threads EXCEPT ![id].st = "gone"]
    /\ UNCHANGED <<reqs, messages, now, appends>>

\* getThreadsByUserId (lines 51-68): the rows of the user (where userId),
\* ordered by desc(createdAt): the newest remaining row comes next, and rows
\* of equal createdAt can come in either order
ThreadsOf(thr, userId) == {id \in StoreThreadIds : thr[id].st = "live" /\ thr[id].userId = userId}
Oldest(thr, ids) == {id \in ids : \A other \in ids : thr[id].createdAt <= thr[other].createdAt}
Newest(thr, ids) == {id \in ids : \A other \in ids : thr[id].createdAt >= thr[other].createdAt}
RECURSIVE OrderByCreatedAtDesc(_, _)
OrderByCreatedAtDesc(thr, ids) ==
    IF ids = {} THEN {<<>>}
    ELSE UNION {{<<id>> \o rest : rest \in OrderByCreatedAtDesc(thr, ids \ {id})} :
                   id \in Newest(thr, ids)}
GetThreadsByUserId(thr, userId) == OrderByCreatedAtDesc(thr, ThreadsOf(thr, userId))

InitStoreVars ==
    /\ appends = <<>>
    /\ deletes = [t \in StoreThreadIds |-> ""]

\* ------------------------------------------- GatewayMCPClient (Next.js app)
GwSlots == 1..MaxGwCalls
IdleGwCall == [pc |-> "idle", kind |-> "", sawEvicted |-> FALSE, ranConnect |-> FALSE,
               result |-> ""]

\* scheduleAutoDisconnect (lines 54-60): the debounce timer is (re)armed when
\* options.autoDisconnectSeconds is set
ScheduleAutoDisconnect(g) == [g EXCEPT !.timer = g.auto]

\* disconnect() (lines 142-145)
Disconnect(g) == [g EXCEPT !.isConnected = FALSE]

\* connect() line 66: an already connected client returns at once
NeedsConnect(g) == ~g.isConnected

\* callTool line 156: `await this.connect()` before the tool request is sent
EnsureConnected_Skipped(g) == FALSE
EnsureConnected(g) == NeedsConnect(g)

\* connect() lines 70-139 after its fetch: success or the catch block
GwAfterConnect(g, ok) ==
    IF ok
    THEN ScheduleAutoDisconnect([g EXCEPT !.isConnected = TRUE, !.error = FALSE,
                                          !.toolInfo = TRUE, !.evicted = FALSE])
    ELSE [g EXCEPT !.isConnected = FALSE, !.error = TRUE]

\* connect() called from outside (the owner of the client connects it)
GwConnectBegin(c) ==
    /\ gwCalls[c].pc = "idle"
    /\ NeedsConnect(gw)
    /\ gwCalls' = [gwCalls EXCEPT ![c] = [IdleGwCall EXCEPT !.pc = "connecting",
                                                            !.kind = "connect"]]
    /\ UNCHANGED gw

\* callTool lines 147-160 up to its first fetch: the error check, then
\* `await this.connect()`, whose result is not looked at
GwCallToolBegin(c) ==
    /\ gwCalls[c].pc = "idle"
    /\ gwCalls' = [gwCalls EXCEPT ![c] =
          IF gw.error
          THEN [IdleGwCall EXCEPT !.result = "isError"]
          ELSE [pc |-> IF EnsureConnected(gw) THEN "connecting" ELSE "calling",
                kind |-> "callTool", sawEvicted |-> gw.evicted,
                ranConnect |-> EnsureConnected(gw), result |-> ""]]
    /\ UNCHANGED gw

\* the fetch of connect() returns
GwConnectDone(c, ok) ==
    /\ gwCalls[c].pc = "connecting"
    /\ gw' = GwAfterConnect(gw, ok)
    /\ gwCalls' = [gwCalls EXCEPT ![c] =
          IF gwCalls[c].kind = "connect"
          THEN [IdleGwCall EXCEPT !.result = IF ok THEN "true" ELSE "false"]
          ELSE [gwCalls[c] EXCEPT !.pc = "calling"]]

\* callTool lines 173-212: the tool fetch returns; a failure becomes content
GwCallToolDone(c, ok) ==
    /\ gwCalls[c].pc = "calling"
    /\ gw' = IF ok THEN ScheduleAutoDisconnect(gw) ELSE gw
    /\ gwCalls' = [gwCalls EXCEPT ![c] =
          [IdleGwCall EXCEPT !.result = IF ok THEN "content" ELSE "isError"]]

\* the debounce timer of scheduleAutoDisconnect expires: disconnect()
GwTimerFire ==
    /\ gw.timer
    /\ gw' = [Disconnect(gw) EXCEPT !.timer = FALSE,
                                    !.evicted = (gw.evicted \/ gw.isConnected)]
    /\ UNCHANGED gwCalls

\* disconnect() called from outside
GwDisconnect ==
    /\ gw.isConnected
    /\ gw' = Disconnect(gw)
    /\ UNCHANGED gwCalls

InitGwVars ==
    /\ gw \in [isConnected : {FALSE}, error : {FALSE}, toolInfo : {FALSE},
                timer : {FALSE}, evicted : {FALSE}, auto : BOOLEAN]
    /\ gwCalls = [c \in GwSlots |-> IdleGwCall]

\* ------------------------------------- Next.js route POST /api/chat (route.ts)
SessionUsers == {"u1", "u2"}         \* session.user.id of getSession()
GatewayUser == "dev-user"            \* the user the gateway derives from AUTH_TOKEN
RouteThreadIds == {"T1", "T2"}       \* `id` of the request body

\* route.ts lines 10-11 declare AI_SERVICE_URL and AUTH_TOKEN; GATEWAY_URL
\* (lines 33, 44, 95) and aiServiceResponse (lines 110-115) are declared nowhere
\* in the file, so evaluating them throws a ReferenceError
GatewayUrlDeclared == FALSE
AiServiceResponseDeclared == FALSE

NoResp == [status |-> "", body |-> "", foreign |-> FALSE]

\* route.ts lines 13-173: the whole handler for user u and thread id
RoutePost(u, id) ==
    /\ routeResp[<<u, id>>].status = ""
    /\ LET foreign == gthreads[id] \notin {"", u}
           owner == IF gthreads[id] = "" THEN GatewayUser ELSE gthreads[id]
       IN
       IF ~GatewayUrlDeclared
       THEN \* lines 32-68: the fetch expression throws, the inner catch answers
            /\ routeResp' = [routeResp EXCEPT ![<<u, id>>] =
                  [status |-> "500", body |-> "Failed to handle thread", foreign |-> foreign]]
            /\ UNCHANGED <<gthreads, gchats>>
       ELSE IF owner # u
       THEN \* lines 39-72: thread loaded or created, then the owner check
            /\ gthreads' = [gthreads EXCEPT ![id] = owner]
            /\ routeResp' = [routeResp EXCEPT ![<<u, id>>] =
                  [status |-> "403", body |-> "Forbidden", foreign |-> foreign]]
            /\ UNCHANGED gchats
       ELSE \* lines 94-173: the gateway chat call, then the answer
            /\ gthreads' = [gthreads EXCEPT ![id] = owner]
            /\ gchats' = gchats \cup {<<u, id>>}
            /\ routeResp' = [routeResp EXCEPT ![<<u, id>>] =
                  IF AiServiceResponseDeclared
                  THEN [status |-> "200", body |-> "stream", foreign |-> foreign]
                  ELSE [status |-> "500", body |-> "aiServiceResponse is not defined",
                        foreign |-> foreign]]

\* another client of the gateway creates a thread (POST /chat/threads)
GatewayCreateThread(owner, id) ==
    /\ gthreads[id] = ""
    /\ gthreads' = [gthreads EXCEPT ![id] = owner]
    /\ UNCHANGED <<gchats, routeResp>>

InitRouteVars ==
    /\ gthreads = [t \in RouteThreadIds |-> ""]
    /\ gchats = {}
    /\ routeResp = [k \in SessionUsers \X RouteThreadIds |-> NoResp]

\* --------------------------------------- Java gateway (McpClientService.java)
JavaUsers == {"dev-user", "anonymous"}   \* AuthService.verifyToken results (sub)
ServerUrls == {"http://localhost:5000", "http://localhost:8001"}
JavaOps == {"query", "chat", "disconnect"}

\* generateClientKey (lines 293-295)
GenerateClientKey(serverUrl, userId) == serverUrl \o ":" \o userId

\* executeQuery / executeChat / disconnectServer (lines 141-210): the key is
\* computed, a mock answer is returned, mcpClients is neither read nor written
JavaServe(op, serverUrl, userId) ==
    /\ <<op, serverUrl, userId>> \notin {<<e.op, e.serverUrl, e.user>> : e \in jserved}
    /\ jserved' = jserved \cup
          {[op |-> op, serverUrl |-> serverUrl, user |-> userId,
            clientKey |-> GenerateClientKey(serverUrl, userId), error |-> ""]}
    /\ UNCHANGED mcpClients

InitJavaVars ==
    /\ mcpClients = {}
    /\ jserved = {}

\* ------------------------------------------- server selector of the gateway
Alphabet == {"a", "b", "A"}
KeywordPool == {<<"a">>, <<"b">>, <<"a", "b">>}   \* lower-cased routing keywords

RECURSIVE SeqsUpTo(_)
SeqsUpTo(n) ==
    IF n = 0 THEN {<<>>}
    ELSE LET shorter == SeqsUpTo(n - 1) IN
         shorter \cup {Append(p, ch) : p \in {q \in shorter : Len(q) = n - 1}, ch \in Alphabet}
Prompts == SeqsUpTo(MaxPromptLen)

\* the prompt is normalised to lower case
UpperCase == <<"A", "B", "C", "D", "E", "F", "G", "H", "I", "J", "K", "L", "M",
               "N", "O", "P", "Q", "R", "S", "T", "U", "V", "W", "X", "Y", "Z">>
LowerCase == <<"a", "b", "c", "d", "e", "f", "g", "h", "i", "j", "k", "l", "m",
               "n", "o", "p", "q", "r", "s", "t", "u", "v", "w", "x", "y", "z">>
ToLower(ch) ==
    IF \E i \in 1..Len(UpperCase) : UpperCase[i] = ch
    THEN LowerCase[CHOOSE i \in 1..Len(UpperCase) : UpperCase[i] = ch]
    ELSE ch
Normalize(prompt) == [k \in 1..Len(prompt) |-> ToLower(prompt[k])]

\* kw occurs in text as a substring
Occurs(kw, text) ==
    \E k \in 0..(Len(text) - Len(kw)) : \A j \in 1..Len(kw) : text[k + j] = kw[j]

\* match score: the number of routing keywords occurring in the normalised prompt
Score(keywords, text) == Cardinality({kw \in keywords : Occurs(kw, text)})

\* a later descriptor replaces the best one only with a strictly higher score
Better_OrEqual(score, best) == score >= best
Better(score, best) == score > best

RECURSIVE Scan(_, _, _, _)
Scan(reg, text, k, best) ==
    IF k > Len(reg) THEN best
    ELSE LET sc == Score(reg[k], text) IN
         Scan(reg, text, k + 1,
              IF Better(sc, best.score) THEN [idx |-> k, score |-> sc] ELSE best)

\* no descriptor scored above zero: the configured default
Fallback_First(dflt) == 1
Fallback(dflt) == dflt

\* the selection: highest nonzero score, first registered on ties, else default
SelectServer(reg, dflt, prompt) ==
    LET best == Scan(reg, Normalize(prompt), 1, [idx |-> 0, score |-> 0]) IN
    IF best.score > 0 THEN best.idx ELSE Fallback(dflt)

\* one prompt is routed (each behaviour applies the selector to one prompt)
Select(prompt) ==
    /\ selected = 0
    /\ selPrompt' = prompt
    /\ selected' = SelectServer(registry, defaultIdx, prompt)
    /\ UNCHANGED <<registry, defaultIdx>>

InitSelVars ==
    /\ registry \in [1..MaxServers -> SUBSET KeywordPool]
    /\ defaultIdx \in 1..MaxServers
    /\ selPrompt = <<>>
    /\ selected = 0

\* ------------------------------------ the documented selector configurations
\* API.md line 723: keywords of the Playwright server
ApiPlaywrightKeywords ==
    {<<"b", "r", "o", "w", "s", "e">>,
     <<"n", "a", "v", "i", "g", "a", "t", "e">>,
     <<"s", "c", "r", "e", "e", "n", "s", "h", "o", "t">>,
     <<"c", "l", "i", "c", "k">>,
     <<"t", "y", "p", "e">>,
     <<"w", "e", "b", "s", "i", "t", "e">>,
     <<"p", "a", "g", "e">>,
     <<"b", "r", "o", "w", "s", "e", "r">>,
     <<"w", "e", "b">>,
     <<"u", "r", "l">>,
     <<"l", "i", "n", "k">>,
     <<"g", "o", "o", "g", "l", "e">>,
     <<"g", "i", "t", "h", "u", "b">>,
     <<"o", "p", "e", "n">>,
     <<"v", "i", "s", "i", "t">>,
     <<"s", "c", "r", "a", "p", "e">>,
     <<"e", "x", "t", "r", "a", "c", "t">>,
     <<"e", "l", "e", "m", "e", "n", "t">>,
     <<"b", "u", "t", "t", "o", "n">>,
     <<"f", "o", "r", "m">>,
     <<"i", "n", "p", "u", "t">>}
\* API.md line 732: keywords of the Apollo server
ApiApolloKeywords ==
    {<<"s", "p", "a", "c", "e">>,
     <<"a", "s", "t", "r", "o", "n", "a", "u", "t">>,
     <<"m", "i", "s", "s", "i", "o", "n">>,
     <<"l", "a", "u", "n", "c", "h">>,
     <<"n", "a", "s", "a">>,
     <<"s", "p", "a", "c", "e", "x">>,
     <<"r", "o", "c", "k", "e", "t">>,
     <<"s", "a", "t", "e", "l", "l", "i", "t", "e">>,
     <<"o", "r", "b", "i", "t">>,
     <<"c", "e", "l", "e", "s", "t", "i", "a", "l">>,
     <<"p", "l", "a", "n", "e", "t">>,
     <<"m", "o", "o", "n">>,
     <<"m", "a", "r", "s">>,
     <<"s", "t", "a", "t", "i", "o", "n">>,
     <<"i", "s", "s">>,
     <<"c", "r", "e", "w">>}
\* the shorter keyword list of the Playwright server (gateway README)
ReadmePlaywrightKeywords ==
    {<<"n", "a", "v", "i", "g", "a", "t", "e">>,
     <<"s", "c", "r", "e", "e", "n", "s", "h", "o", "t">>,
     <<"c", "l", "i", "c", "k">>,
     <<"t", "y", "p", "e">>,
     <<"w", "e", "b", "s", "i", "t", "e">>,
     <<"b", "r", "o", "w", "s", "e", "r">>,
     <<"u", "r", "l">>,
     <<"v", "i", "s", "i", "t">>,
     <<"s", "c", "r", "a", "p", "e">>}
\* the shorter keyword list of the Apollo server (gateway README)
ReadmeApolloKeywords ==
    {<<"s", "p", "a", "c", "e">>,
     <<"a", "s", "t", "r", "o", "n", "a", "u", "t">>,
     <<"m", "i", "s", "s", "i", "o", "n">>,
     <<"l", "a", "u", "n", "c", "h">>,
     <<"n", "a", "s", "a">>,
     <<"s", "p", "a", "c", "e", "x">>,
     <<"r", "o", "c", "k", "e", "t">>,
     <<"o", "r", "b", "i", "t">>,
     <<"m", "a", "r", "s">>}
\* the two-server scenario: browser
ScenarioBrowserKeywords ==
    {<<"s", "c", "r", "e", "e", "n", "s", "h", "o", "t">>,
     <<"n", "a", "v", "i", "g", "a", "t", "e">>}
\* the two-server scenario: apollo
ScenarioApolloKeywords ==
    {<<"a", "s", "t", "r", "o", "n", "a", "u", "t">>,
     <<"s", "p", "a", "c", "e">>}

\* the documented example prompts, character by character
ExScreenshotGoogle ==   \* Take a screenshot of google.com
    <<"T", "a", "k", "e", " ", "a", " ", "s", "c", "r", "e", "e",
      "n", "s", "h", "o", "t", " ", "o", "f", " ", "g", "o", "o",
      "g", "l", "e", ".", "c", "o", "m">>
ExNavigateGithub ==   \* Navigate to github.com and click the sign in button
    <<"N", "a", "v", "i", "g", "a", "t", "e", " ", "t", "o", " ",
      "g", "i", "t", "h", "u", "b", ".", "c", "o", "m", " ", "a",
      "n", "d", " ", "c", "l", "i", "c", "k", " ", "t", "h", "e",
      " ", "s", "i", "g", "n", " ", "i", "n", " ", "b", "u", "t",
      "t", "o", "n">>
ExExtractHomepage ==   \* Extract the text from the homepage
    <<"E", "x", "t", "r", "a", "c", "t", " ", "t", "h", "e", " ",
      "t", "e", "x", "t", " ", "f", "r", "o", "m", " ", "t", "h",
      "e", " ", "h", "o", "m", "e", "p", "a", "g", "e">>
ExAstronauts ==   \* Who are the astronauts currently in space?
    <<"W", "h", "o", " ", "a", "r", "e", " ", "t", "h", "e", " ",
      "a", "s", "t", "r", "o", "n", "a", "u", "t", "s", " ", "c",
      "u", "r", "r", "e", "n", "t", "l", "y", " ", "i", "n", " ",
      "s", "p", "a", "c", "e", "?">>
ExSpaceX ==   \* Show me upcoming SpaceX launches
    <<"S", "h", "o", "w", " ", "m", "e", " ", "u", "p", "c", "o",
      "m", "i", "n", "g", " ", "S", "p", "a", "c", "e", "X", " ",
      "l", "a", "u", "n", "c", "h", "e", "s">>
ExMars ==   \* Tell me about the Mars mission
    <<"T", "e", "l", "l", " ", "m", "e", " ", "a", "b", "o", "u",
      "t", " ", "t", "h", "e", " ", "M", "a", "r", "s", " ", "m",
      "i", "s", "s", "i", "o", "n">>
ExScenarioAstronauts ==   \* Who are the astronauts in space?
    <<"W", "h", "o", " ", "a", "r", "e", " ", "t", "h", "e", " ",
      "a", "s", "t", "r", "o", "n", "a", "u", "t", "s", " ", "i",
      "n", " ", "s", "p", "a", "c", "e", "?">>
ExScenarioScreenshot ==   \* Take a screenshot of example.com
    <<"T", "a", "k", "e", " ", "a", " ", "s", "c", "r", "e", "e",
      "n", "s", "h", "o", "t", " ", "o", "f", " ", "e", "x", "a",
      "m", "p", "l", "e", ".", "c", "o", "m">>
ExScenarioWeather ==   \* What's the weather?
    <<"W", "h", "a", "t", "'", "s", " ", "t", "h", "e", " ", "w",
      "e", "a", "t", "h", "e", "r", "?">>

DocPrompts == {ExScreenshotGoogle, ExNavigateGithub, ExExtractHomepage, ExAstronauts,
               ExSpaceX, ExMars, ExScenarioAstronauts, ExScenarioScreenshot,
               ExScenarioWeather}

\* a registry of two documented servers, the unused places without keywords
DocRegistry(first, second) ==
    [k \in 1..MaxServers |-> IF k = 1 THEN first ELSE IF k = 2 THEN second ELSE {}]

\* the documented configurations in either registration order; the default
\* of the gateway configurations is the Playwright server
InitDocVars ==
    /\ \E pair \in {<<ApiPlaywrightKeywords, ApiApolloKeywords>>,
                     <<ReadmePlaywrightKeywords, ReadmeApolloKeywords>>,
                     <<ScenarioBrowserKeywords, ScenarioApolloKeywords>>} :
          \/ registry = DocRegistry(pair[1], pair[2]) /\ defaultIdx = 1
          \/ registry = DocRegistry(pair[2], pair[1]) /\ defaultIdx = 2
    /\ selPrompt = <<>>
    /\ selected = 0

InitSelIdle ==
    /\ registry = [k \in 1..MaxServers |-> {}]
    /\ defaultIdx = 1
    /\ selPrompt = <<>>
    /\ selected = 0

InitGwIdle ==
    /\ gw = [isConnected |-> FALSE, error |-> FALSE, toolInfo |-> FALSE,
             timer |-> FALSE, evicted |-> FALSE, auto |-> TRUE]
    /\ gwCalls = [c \in GwSlots |-> IdleGwCall]

InitPoolIdle ==
    /\ clients = [i \in Ids |-> NoObj]
    /\ initialized = FALSE
    /\ storage = [i \in Ids |-> ""]
    /\ mcp = [o \in Objs |-> Unmade]
    /\ calls = [c \in CallSlots |-> FreeCall]
    /\ initPhase = "idle"
    /\ order = <<>>
    /\ cleanup = NoCleanup

vars == <<poolVars, chatVars, gwVars, routeVars, javaVars, selVars, storeVars, invokeVars>>

\* the session pool on its own
InitPool == InitPoolVars /\ InitChatVars /\ InitGwIdle /\ InitRouteVars /\ InitJavaVars /\ InitStoreVars /\ InitInvokeVars
            /\ InitSelIdle
NotPool == <<chatVars, gwVars, routeVars, javaVars, selVars, storeVars, invokeVars>>
NextPool ==
    \/ InitBegin /\ UNCHANGED NotPool
    \/ InitLoaded /\ UNCHANGED NotPool
    \/ \E c \in CallSlots, id \in Ids, name \in Names :
          PersistClient(c, id, name) /\ UNCHANGED NotPool
    \/ \E c \in CallSlots, id \in Ids : RefreshClient(c, id) /\ UNCHANGED NotPool
    \/ \E c \in CallSlots, ok \in BOOLEAN : CloseDone(c, ok) /\ UNCHANGED NotPool
    \/ \E c \in CallSlots, outcome \in ConnectOutcomes :
          ConnectDone(c, outcome) /\ UNCHANGED NotPool
SpecPool == InitPool /\ [][NextPool]_vars

\* the chat handler on top of the pool: the manager starts up from the stored
\* configurations while chat requests arrive
NotChat == <<poolVars, gwVars, routeVars, javaVars, selVars, storeVars, invokeVars>>
NextChat ==
    \/ InitBegin /\ UNCHANGED NotPool
    \/ InitLoaded /\ UNCHANGED NotPool
    \/ \E c \in CallSlots, outcome \in ConnectOutcomes :
          ConnectDone(c, outcome) /\ UNCHANGED NotPool
    \/ \E r \in ReqSlots, t \in ThreadIds \cup {""} : ChatBegin(r, t) /\ UNCHANGED NotChat
    \/ \E r \in ReqSlots, dt \in {0, 1} : \E toolCalls \in ToolCallChoices(r) :
          ModelFinish(r, dt, toolCalls) /\ UNCHANGED NotChat
    \/ \E r \in ReqSlots : ModelFail(r) /\ UNCHANGED NotChat
InitChat == InitPoolVars /\ InitChatStored /\ InitGwIdle /\ InitRouteVars /\ InitJavaVars /\ InitStoreVars /\ InitInvokeVars
            /\ InitSelIdle
SpecChat == InitChat /\ [][NextChat]_vars

\* the gateway-backed tool client on its own
InitGw == InitPoolIdle /\ InitChatVars /\ InitGwVars /\ InitRouteVars /\ InitJavaVars /\ InitStoreVars /\ InitInvokeVars
          /\ InitSelIdle
NotGw == <<poolVars, chatVars, routeVars, javaVars, selVars, storeVars, invokeVars>>
NextGw ==
    \/ \E c \in GwSlots : GwConnectBegin(c) /\ UNCHANGED NotGw
    \/ \E c \in GwSlots : GwCallToolBegin(c) /\ UNCHANGED NotGw
    \/ \E c \in GwSlots, ok \in BOOLEAN : GwConnectDone(c, ok) /\ UNCHANGED NotGw
    \/ \E c \in GwSlots, ok \in BOOLEAN : GwCallToolDone(c, ok) /\ UNCHANGED NotGw
    \/ GwTimerFire /\ UNCHANGED NotGw
    \/ GwDisconnect /\ UNCHANGED NotGw
SpecGw == InitGw /\ [][NextGw]_vars

\* the Next.js chat route in front of the gateway
InitRoute == InitPoolIdle /\ InitChatVars /\ InitGwIdle /\ InitRouteVars /\ InitJavaVars /\ InitStoreVars /\ InitInvokeVars
             /\ InitSelIdle
NotRoute == <<poolVars, chatVars, gwVars, javaVars, selVars, storeVars, invokeVars>>
NextRoute ==
    \/ \E u \in SessionUsers, id \in RouteThreadIds : RoutePost(u, id) /\ UNCHANGED NotRoute
    \/ \E o \in SessionUsers \cup {GatewayUser}, id \in RouteThreadIds :
          GatewayCreateThread(o, id) /\ UNCHANGED NotRoute
SpecRoute == InitRoute /\ [][NextRoute]_vars

\* the Java gateway service
NotJava == <<poolVars, chatVars, gwVars, routeVars, selVars, storeVars, invokeVars>>
NextJava ==
    \E op \in JavaOps, url \in ServerUrls, u \in JavaUsers :
        JavaServe(op, url, u) /\ UNCHANGED NotJava
SpecJava == InitRoute /\ [][NextJava]_vars

\* the selector, over every registry and prompt within the bounds
InitSel == InitPoolIdle /\ InitChatVars /\ InitGwIdle /\ InitRouteVars /\ InitJavaVars /\ InitStoreVars /\ InitInvokeVars
           /\ InitSelVars
NotSel == <<poolVars, chatVars, gwVars, routeVars, javaVars, storeVars, invokeVars>>
NextSel == \E prompt \in Prompts : Select(prompt) /\ UNCHANGED NotSel
SpecSel == InitSel /\ [][NextSel]_vars

\* the selector over the bounded registries and the documented configurations,
\* with the bounded prompts and the documented example prompts (as written
\* and in lower case)
InitSelDoc == InitPoolIdle /\ InitChatVars /\ InitGwIdle /\ InitRouteVars /\ InitJavaVars /\ InitStoreVars /\ InitInvokeVars
              /\ (InitSelVars \/ InitDocVars)
NextSelDoc ==
    \/ \E prompt \in Prompts : Select(prompt) /\ UNCHANGED NotSel
    \/ \E prompt \in DocPrompts : Select(prompt) /\ UNCHANGED NotSel
    \/ \E prompt \in DocPrompts : Select(Normalize(prompt)) /\ UNCHANGED NotSel
SpecSelDoc == InitSelDoc /\ [][NextSelDoc]_vars

\* the chat repository on its own
InitStore == InitPoolIdle /\ InitChatVars /\ InitGwIdle /\ InitRouteVars /\ InitJavaVars
             /\ InitStoreVars /\ InitInvokeVars /\ InitSelIdle
NotStore == <<poolVars, gwVars, routeVars, javaVars, selVars, invokeVars>>
NextStore ==
    \/ StoreTick /\ UNCHANGED NotStore
    \/ \E u \in StoreUsers : StoreCreateThread(u) /\ UNCHANGED NotStore
    \/ \E id \in StoreThreadIds, role \in {"user", "assistant"} :
          StoreCreateMessage(id, role) /\ UNCHANGED NotStore
    \/ \E id \in StoreThreadIds : StoreDeleteThread(id) /\ UNCHANGED NotStore
SpecStore == InitStore /\ [][NextStore]_vars

\* tool calls on the clients of the session pool
NotInvoke == <<poolVars, chatVars, gwVars, routeVars, javaVars, selVars, storeVars>>
NextInvoke ==
    \/ InitBegin /\ UNCHANGED NotPool
    \/ InitLoaded /\ UNCHANGED NotPool
    \/ \E c \in CallSlots, id \in Ids, name \in Names :
          PersistClient(c, id, name) /\ UNCHANGED NotPool
    \/ \E c \in CallSlots, id \in Ids : RefreshClient(c, id) /\ UNCHANGED NotPool
    \/ \E c \in CallSlots, ok \in BOOLEAN : CloseDone(c, ok) /\ UNCHANGED NotPool
    \/ \E c \in CallSlots, outcome \in ConnectOutcomes :
          ConnectDone(c, outcome) /\ UNCHANGED NotPool
    \/ \E k \in InvokeSlots, o \in Objs, tool \in ToolNames :
          ToolCallBegin(k, o, tool) /\ UNCHANGED NotInvoke
    \/ \E k \in InvokeSlots, ok \in BOOLEAN : ToolCallDone(k, ok) /\ UNCHANGED NotInvoke
SpecInvoke == InitPool /\ [][NextInvoke]_vars

\* the manager under its administrative calls; every stored configuration
\* comes from a persistClient call
InitAdmin == InitPoolIdle /\ InitChatVars /\ InitGwIdle /\ InitRouteVars /\ InitJavaVars
             /\ InitStoreVars /\ InitInvokeVars /\ InitSelIdle
NextAdmin ==
    \/ InitBegin /\ UNCHANGED NotPool
    \/ InitLoaded /\ UNCHANGED NotPool
    \/ \E c \in CallSlots, id \in Ids, name \in Names :
          PersistClient(c, id, name) /\ UNCHANGED NotPool
    \/ \E c \in CallSlots, outcome \in ConnectOutcomes :
          ConnectDone(c, outcome) /\ UNCHANGED NotPool
    \/ \E c \in CallSlots, id \in Ids : RemoveBegin(c, id) /\ UNCHANGED NotPool
    \/ \E c \in CallSlots : RemoveLookup(c) /\ UNCHANGED NotPool
    \/ \E c \in CallSlots, ok \in BOOLEAN : RemoveDone(c, ok) /\ UNCHANGED NotPool
SpecAdmin == InitAdmin /\ [][NextAdmin]_vars

\* the manager starts up from its storage and a shutdown signal arrives
NextShutdown ==
    \/ InitBegin /\ UNCHANGED NotPool
    \/ InitLoaded /\ UNCHANGED NotPool
    \/ \E c \in CallSlots, outcome \in ConnectOutcomes :
          ConnectDone(c, outcome) /\ UNCHANGED NotPool
    \/ CleanupBegin /\ UNCHANGED NotPool
    \/ \E o \in Objs, ok \in BOOLEAN : CleanupSettled(o, ok) /\ UNCHANGED NotPool
SpecShutdown == InitPool /\ [][NextShutdown]_vars

\* the manual tool call route on a manager that starts up from its storage
NextRouteTools ==
    \/ InitBegin /\ UNCHANGED NotPool
    \/ InitLoaded /\ UNCHANGED NotPool
    \/ \E c \in CallSlots, outcome \in ConnectOutcomes :
          ConnectDone(c, outcome) /\ UNCHANGED NotPool
    \/ \E k \in InvokeSlots, toolId \in ToolIds :
          RouteToolCall(k, toolId) /\ UNCHANGED NotInvoke
    \/ \E k \in InvokeSlots, ok \in BOOLEAN : ToolCallDone(k, ok) /\ UNCHANGED NotInvoke
SpecRouteTools == InitPool /\ [][NextRouteTools]_vars

\* ---------------------------------------------------------------- claims

\* C1: for one pool key, at most one connect() is in flight at any time
\* (overlapping addClient calls for the key coalesce into one attempt).
ConnectsInFlight(id) == {c \in CallSlots : calls[c].pc = "connecting" /\ calls[c].id = id}
C1_OneConnectInFlight == \A id \in Ids : Cardinality(ConnectsInFlight(id)) <= 1

\* C2: when two identities have asked for the same server, the pool holds two
\* distinct sessions, one under each identity's key.
JavaServedUsers(serverUrl) == {e.user : e \in {x \in jserved : x.serverUrl = serverUrl /\ x.op # "disconnect"}}
C2_OneSessionPerIdentity ==
    \A url \in ServerUrls : \A a \in JavaServedUsers(url), b \in JavaServedUsers(url) :
        a # b => /\ GenerateClientKey(url, a) \in mcpClients
                 /\ GenerateClientKey(url, b) \in mcpClients
                 /\ GenerateClientKey(url, a) # GenerateClientKey(url, b)

\* C3: the idle timer never disconnects the session while a tool call on it
\* is in flight.
IdleEviction == gw.timer /\ ~gw'.timer /\ gw.isConnected /\ ~gw'.isConnected
C3_NoEvictionDuringCall ==
    [][IdleEviction => \A c \in GwSlots : gwCalls[c].pc # "calling"]_vars

UserStored(r) ==
    \E k \in 1..Len(messages) : messages[k].content = r /\ messages[k].role = "user"
C5_UserMessageBeforeModel ==
    \A r \in ReqSlots :
        (reqs[r].pc \in {"model", "error"} /\ reqs[r].thread # "") => UserStored(r)

\* C6: a request whose model call failed ends with an error and no result, and
\* its user message is in the thread.
C6_ModelFailureKeepsUserTurn ==
    \A r \in ReqSlots :
        reqs[r].pc = "error" =>
            /\ reqs[r].error # "" /\ reqs[r].result = ""
            /\ reqs[r].thread # "" => UserStored(r)

\* C7: a request naming a thread owned by another identity is answered
\* Forbidden, and no gateway chat call is made for it.
C7_ForeignThreadForbidden ==
    \A k \in SessionUsers \X RouteThreadIds :
        (routeResp[k].status # "" /\ routeResp[k].foreign) =>
            /\ routeResp[k].status = "403" /\ routeResp[k].body = "Forbidden"
            /\ k \notin gchats

ScoreOf(k) == Score(registry[k], Normalize(selPrompt))
TopScore == CHOOSE m \in 0..Cardinality(KeywordPool) :
               /\ \E k \in 1..MaxServers : ScoreOf(k) = m
               /\ \A k \in 1..MaxServers : ScoreOf(k) <= m
C9_HighestScoreFirstRegistered ==
    (selected # 0 /\ TopScore > 0) =>
        /\ ScoreOf(selected) = TopScore
        /\ \A k \in 1..MaxServers : ScoreOf(k) = TopScore => selected <= k
C9_Witness ==
    /\ selected = 1 /\ TopScore > 0
    /\ \E k \in 2..MaxServers : ScoreOf(k) = TopScore /\ registry[k] # registry[1]
    /\ \E j \in 1..Len(selPrompt) : selPrompt[j] = "A"

\* C10: for a prompt in which no routing keyword of any descriptor occurs, the
\* selector returns the configured default descriptor.
C10_NoMatchDefault ==
    (selected # 0 /\ \A k \in 1..MaxServers : ScoreOf(k) = 0) => selected = defaultIdx
C10_Witness ==
    /\ selected = defaultIdx /\ defaultIdx # 1 /\ selPrompt # <<>>
    /\ \A k \in 1..MaxServers : registry[k] # {} /\ ScoreOf(k) = 0

\* C11 (as stated): a prompt with matching keywords, all of which belong to a
\* registered descriptor D, selects D.
Matching == {kw \in UNION {registry[k] : k \in 1..MaxServers} :
               Occurs(kw, Normalize(selPrompt))}
HoldsAllMatching(k) == Matching # {} /\ Matching \subseteq registry[k]
C11_OwnKeywordsSelectD ==
    selected # 0 => \A D \in 1..MaxServers : HoldsAllMatching(D) => selected = D

\* C11 (amended): such a prompt selects the first-registered descriptor that
\* holds all of its matching keywords (D itself unless an earlier descriptor
\* shares them), and every documented example prompt is routed to its
\* documented server under the documented keyword lists.
DocExamples ==
    {[prompt |-> ExScreenshotGoogle,
      server |-> {ApiPlaywrightKeywords, ReadmePlaywrightKeywords}],
     [prompt |-> ExNavigateGithub,
      server |-> {ApiPlaywrightKeywords, ReadmePlaywrightKeywords}],
     [prompt |-> ExExtractHomepage,
      server |-> {ApiPlaywrightKeywords, ReadmePlaywrightKeywords}],
     [prompt |-> ExAstronauts, server |-> {ApiApolloKeywords, ReadmeApolloKeywords}],
     [prompt |-> ExSpaceX, server |-> {ApiApolloKeywords, ReadmeApolloKeywords}],
     [prompt |-> ExMars, server |-> {ApiApolloKeywords, ReadmeApolloKeywords}],
     [prompt |-> ExScenarioAstronauts, server |-> {ScenarioApolloKeywords}],
     [prompt |-> ExScenarioScreenshot, server |-> {ScenarioBrowserKeywords}]}
C11_FirstHolderAndExamples ==
    selected # 0 =>
        /\ \A D \in 1..MaxServers :
              HoldsAllMatching(D) =>
                  /\ HoldsAllMatching(selected) /\ selected <= D
                  /\ \A k \in 1..(selected - 1) : ~HoldsAllMatching(k)
        /\ \A e \in DocExamples :
              (/\ Normalize(selPrompt) = Normalize(e.prompt)
               /\ \E k \in 1..MaxServers : registry[k] \in e.server)
              => registry[selected] \in e.server
C11_Witness ==
    /\ selPrompt = ExSpaceX /\ registry[1] = ApiPlaywrightKeywords
    /\ selected = 2 /\ registry[2] = ApiApolloKeywords /\ HoldsAllMatching(2)

\* C12: reading a thread back yields exactly the messages appended to it, none
\* lost or duplicated, in the order in which they were appended.
Contents(rows) == [k \in 1..Len(rows) |-> rows[k].content]
AppendedTo(threadId) ==
    Contents(SelectSeq(appends, LAMBDA a : a.threadId = threadId /\ a.existed))
C12_AppendReadRoundTrip ==
    \A id \in StoreThreadIds :
        ThreadExists(threads, id) =>
            Contents(GetMessagesByThreadId(messages, id)) = AppendedTo(id)

\* C13: after a successful run on an existing thread, reading the thread
\* returns the user message of the request and exactly one assistant message of
\* the request, whose annotations record the selected server.
RecordsSelectedServer(row) == \E a \in row.annotations : "selected_server" \in DOMAIN a
TurnRows(r, role) ==
    LET read == GetMessagesByThreadId(messages, reqs[r].thread) IN
    {k \in 1..Len(read) : read[k].content = r /\ read[k].role = role}
C13_RunPersistsAnnotatedTurn ==
    \A r \in ReqSlots :
        (reqs[r].pc = "done" /\ ThreadExists(threads, reqs[r].thread)) =>
            LET read == GetMessagesByThreadId(messages, reqs[r].thread) IN
            /\ TurnRows(r, "user") # {}
            /\ Cardinality(TurnRows(r, "assistant")) = 1
            /\ \A k \in TurnRows(r, "assistant") : RecordsSelectedServer(read[k])

\* C14: a tool invocation that fails comes back to its caller as content
\* flagged as an error, never as a thrown exception.
C14_ToolFailureIsContent ==
    \A k \in InvokeSlots :
        (invokes[k].pc = "idle" /\ invokes[k].failed) => invokes[k].result = "error content"

\* C15: a request performs at most the fixed number of model rounds, and a
\* request that ends at the cap while the model still asks for tools returns
\* its text with the truncated flag set.
C15_RoundCapTruncates ==
    \A r \in ReqSlots :
        /\ reqs[r].rounds <= MaxSteps
        /\ (reqs[r].pc = "done" /\ reqs[r].rounds = MaxSteps /\ reqs[r].toolCalls # {})
              => (reqs[r].result # "" /\ reqs[r].truncated)

\* C16: an append to a thread that does not exist fails with NotFound and
\* stores nothing, and every stored message references an existing thread.
StoredContent(n) == \E k \in 1..Len(messages) : messages[k].content = n
C16_AppendToAbsentThreadNotFound ==
    /\ \A n \in 1..Len(appends) :
          ~appends[n].existed => (appends[n].error = "NotFound" /\ ~StoredContent(n))
    /\ \A k \in 1..Len(messages) : ThreadExists(threads, messages[k].threadId)

\* C17: once deleteThread has been called for a thread, the thread is gone
\* and no message of it can be read.
C17_DeleteThreadCascades ==
    \A id \in StoreThreadIds :
        deletes[id] # "" =>
            /\ ~ThreadExists(threads, id)
            /\ GetMessagesByThreadId(messages, id) = <<>>

\* C18 (as stated): listThreads returns only the threads of the identity, a
\* thread with more recent activity before a thread with older activity.
LastActivity(id) ==
    LET read == GetMessagesByThreadId(messages, id) IN
    IF read = <<>> THEN threads[id].createdAt ELSE read[Len(read)].createdAt
Listed(list) == {list[i] : i \in 1..Len(list)}
C18_ListByRecentActivity ==
    \A u \in StoreUsers : \A list \in GetThreadsByUserId(threads, u) :
        /\ Listed(list) = {id \in StoreThreadIds : ThreadExists(threads, id) /\ threads[id].userId = u}
        /\ \A i, j \in 1..Len(list) :
              LastActivity(list[i]) > LastActivity(list[j]) => i < j

\* C18 (amended): listThreads returns exactly the threads of the identity,
\* each once, a thread created later before a thread created earlier,
\* whichever of them received a message more recently.
C18_ListByCreationNewestFirst ==
    \A u \in StoreUsers : \A list \in GetThreadsByUserId(threads, u) :
        /\ Listed(list) = {id \in StoreThreadIds : ThreadExists(threads, id) /\ threads[id].userId = u}
        /\ Len(list) = Cardinality(Listed(list))
        /\ \A i, j \in 1..Len(list) :
              threads[list[i]].createdAt > threads[list[j]].createdAt => i < j
C18_Witness ==
    /\ GetThreadsByUserId(threads, MockUserId) = {<<"T2", "T1">>}
    /\ LastActivity("T1") > LastActivity("T2")

\* C19: when connect() of a session returns, the session is ready only if the
\* transport opened and the tools were discovered; after any other outcome it
\* is not ready and holds the error, and a session that holds an error is
\* never connected again.
C19_ReadyOnlyAfterOpenAndDiscovery ==
    [][/\ \A c \in CallSlots, outcome \in ConnectOutcomes :
             ConnectDone(c, outcome) =>
                 (LET o == mcp'[calls[c].new] IN
                  /\ IsReady(o) <=> outcome = "ok"
                  /\ outcome # "ok" => o.error)
        /\ \A held \in Objs :
             mcp[held].error => (mcp'[held].error /\ ~mcp'[held].isConnected)]_vars

\* C20 (as stated): a tool call on a session that is not ready ends at once
\* with an error, sends nothing and starts no connect.
GwReady == gw.isConnected /\ ~gw.error
EndsAtOnce(call) == call.pc = "idle" /\ call.result = "isError"
C20_McpClientNotConnectedThrows ==
    [][\A k \in InvokeSlots, o \in Objs, tool \in ToolNames :
          (ToolCallBegin(k, o, tool) /\ ~IsReady(mcp[o])) =>
              /\ invokes'[k].pc = "idle" /\ invokes'[k].result = "thrown"
              /\ ~invokes'[k].sent]_vars

C22_DisconnectAlwaysCloses ==
    [][/\ \A c \in CallSlots, ok \in BOOLEAN :
            (CloseDone(c, ok) \/ RemoveDone(c, ok)) => ~IsReady(mcp'[calls[c].old])
       /\ \A o \in Objs, ok \in BOOLEAN :
            CleanupSettled(o, ok) => ~IsReady(mcp'[o])]_vars

\* C23: cleanup never fails; when it ends, disconnect() has been called on
\* every session the pool owned and each of them has settled, also when
\* some of them threw, and the pool is empty.
CleanupEnds == cleanup.pc # "done" /\ cleanup'.pc = "done"
C23_CleanupDisconnectsAll ==
    /\ [](cleanup.pc \in {"idle", "running", "done"})
    /\ [][CleanupBegin => /\ cleanup'.attempted = Owned(clients)
                          /\ \A i \in Ids : clients'[i] = NoObj]_vars
    /\ [][CleanupEnds => /\ cleanup'.pending = {}
                         /\ cleanup'.attempted = cleanup'.owned
                         /\ \A i \in Ids : clients'[i] = NoObj]_vars
C23_Witness ==
    /\ cleanup.pc = "done" /\ cleanup.failures > 0
    /\ Cardinality(cleanup.owned) > 1
    /\ \E o \in cleanup.owned : ~mcp[o].isConnected

\* C24: when a removeClient call returns, the pool holds no session under the
\* id, the session it held under the id is disconnected, and tools() offers
\* no tool of that id.
RemoveReturns(c) ==
    \/ RemoveLookup(c) /\ clients[calls[c].id] = NoObj
    \/ \E ok \in BOOLEAN : RemoveDone(c, ok) /\ ~DisconnectThrows(mcp[calls[c].old], ok)
C24_RemoveDisconnectsAndEvicts ==
    [][\A c \in CallSlots :
          RemoveReturns(c) =>
              /\ clients'[calls[c].id] = NoObj
              /\ clients[calls[c].id] # NoObj => ~mcp'[clients[calls[c].id]].isConnected
              /\ \A toolId \in DOMAIN ToolsMap' :
                    ToolsMap'[toolId]._mcpServerId # calls[c].id]_vars

\* C25: whenever no manager call is in flight, every session stored in the
\* manager's map is ready.
NoCallInFlight ==
    /\ \A c \in CallSlots : calls[c].pc = "free"
    /\ initPhase \notin {"loading", "waiting"}
C25_StoredSessionsReady ==
    NoCallInFlight =>
        \A id \in Ids : clients[id] # NoObj => IsReady(mcp[clients[id]])

\* C26: every createMessage call on an existing thread stores its row, and
\* the ids of the stored rows are pairwise different.
C26_MessageIdsUnique ==
    /\ \A k \in 1..Len(appends) : appends[k].existed => appends[k].error = ""
    /\ \A i, j \in 1..Len(messages) : i # j => messages[i].id # messages[j].id
    /\ \A r \in ReqSlots :
          (reqs[r].pc = "done" /\ ThreadExists(threads, reqs[r].thread)) =>
              Cardinality({k \in 1..Len(messages) : messages[k].content = r}) = 2

\* C27: the session of a tool call in flight stays connected while the call
\* runs, and no call made through a tool handle ends with 'not connected'.
C27_RefreshKeepsRunningCalls ==
    \A k \in InvokeSlots :
        /\ invokes[k].pc = "sending" => mcp[invokes[k].obj].isConnected
        /\ invokes[k].error # "MCP client not connected"

\* C28: whenever no manager call is in flight, the stored configurations and
\* the sessions of the pool have the same ids; a persistClient whose connect
\* fails leaves the storage as it was, and a removeClient whose disconnect
\* throws leaves the storage and the pool as they were.
PersistFails(c) ==
    \E outcome \in ConnectOutcomes :
        ConnectDone(c, outcome) /\ calls[c].via = "persist" /\ ~Connected(outcome)
RemoveFails(c) ==
    RemoveDone(c, FALSE) /\ DisconnectThrows(mcp[calls[c].old], FALSE)
C28_PoolAndStorageAgree ==
    /\ [](NoCallInFlight => \A id \in Ids : storage[id] # "" <=> clients[id] # NoObj)
    /\ [][\A c \in CallSlots : PersistFails(c) => storage'[calls[c].id] = ""]_vars
    /\ [][\A c \in CallSlots :
             RemoveFails(c) => (storage'[calls[c].id] # "" /\ clients' = clients)]_vars

\* C29: once init() has returned, every stored configuration has one ready
\* session and the manager is ready; once init() has thrown and its connects
\* have ended, the pool is empty and the manager is not ready; a chat request
\* is given the tools of the ready sessions.
InitReturned == initPhase = "done"
InitThrew == initPhase = "failed" /\ \A c \in CallSlots : calls[c].pc = "free"
C29_InitAllOrNothing ==
    /\ [](InitReturned =>
             /\ initialized
             /\ \A id \in Ids :
                   /\ storage[id] # "" <=> clients[id] # NoObj
                   /\ clients[id] # NoObj => IsReady(mcp[clients[id]]))
    /\ [](InitThrew => (~initialized /\ \A id \in Ids : clients[id] = NoObj))
    /\ [][\A r \in ReqSlots, t \in ThreadIds \cup {""} :
             ChatBegin(r, t) => reqs'[r].tools = Tools]_vars

\* C30: tools() has exactly one entry per pair of ready session and tool of
\* that session, and every entry names a ready session that has the tool.
ReadyIds == {id \in Ids : clients[id] # NoObj /\ IsReady(mcp[clients[id]])}
ReadyPairs == {<<id, t>> \in Ids \X ToolNames : id \in ReadyIds /\ t \in mcp[clients[id]].tools}
C30_OneEntryPerSessionTool ==
    /\ Cardinality(DOMAIN ToolsMap) = Cardinality(ReadyPairs)
    /\ \A toolId \in DOMAIN ToolsMap :
          <<ToolsMap[toolId]._mcpServerId, ToolsMap[toolId]._originToolName>> \in ReadyPairs
====
